---- MODULE Spec2Model ----
(***************************************************************************)
(* ITPC pipeline of ITPC_Data_Final_25.py: EEGPhaseAnalysis                *)
(* (parse_complex_value, preprocess_data, compute_itpc, analyze_itpc,      *)
(* export_itpc_results, summary_statistics) and main.                      *)
(*                                                                         *)
(* Numbers.  A Python float is a record [nan, v, nz]: an integer v, the     *)
(* NaN, or the negative zero.  Phase angles are floats counted in units of *)
(* pi/4, so the range [-pi, pi] of atan2 is -4..4; cell values are drawn   *)
(* from the complex numbers whose argument is a multiple of pi/4 (one part *)
(* zero, or both parts of equal magnitude).  Unit vectors and their sums   *)
(* are exact                                                               *)
(* numbers (a + b*sqrt(2))/2, so the arithmetic is that of the reals:      *)
(* rounding of IEEE doubles (a few units in the last place) is not         *)
(* modelled.                                                               *)
(***************************************************************************)
EXTENDS Integers, Sequences, FiniteSets, TLC

VARIABLES
    pc,            \* position of the running call
    val,           \* parse_complex_value: the argument
    parsed,        \* parse_complex_value: what it returned
    log,           \* values printed by the except handler of parse_complex_value
    phase_matrix,  \* compute_itpc: the argument
    itpc,          \* compute_itpc: what it returned
    analyzer,      \* the EEGPhaseAnalysis object
    disk,          \* the file system: the input file, whether the output can be written
    data,          \* the loaded DataFrame
    preprocessed_data,  \* what preprocess_data returned
    itpc_results,  \* what analyze_itpc returned
    out_file,      \* the rows of itpc_results.csv once written
    summary,       \* what summary_statistics returned
    ret,           \* what main returned
    warned,        \* the warning main issued
    parsed_itpc    \* the ITPC column of the file as load_and_process_itpc_data parsed it

vars == <<pc, val, parsed, log, phase_matrix, itpc, analyzer, disk, data, preprocessed_data,
          itpc_results, out_file, summary, ret, warned, parsed_itpc>>

Abs(x) == IF x < 0 THEN -x ELSE x

(***************************************************************************)
(* Python values                                                           *)
(***************************************************************************)
F(v) == [nan |-> FALSE, v |-> v, nz |-> FALSE]
NaN == [nan |-> TRUE, v |-> 0, nz |-> FALSE]
NegZero == [nan |-> FALSE, v |-> 0, nz |-> TRUE]        \* -0.0
Cx(re, im) == [re |-> re, im |-> im]            \* complex(re, im), parts are floats

\* cells of the table, and arguments of parse_complex_value
ComplexCell(re, im) == [kind |-> "complex", re |-> re, im |-> im]
StrCell(s) == [kind |-> "str", s |-> s]
NumCell(v) == [kind |-> "num", v |-> v]
NanCell == [kind |-> "nan"]
NoneCell == [kind |-> "none"]
ListCell(items) == [kind |-> "list", items |-> items]

(***************************************************************************)
(* str methods and the numeric constructors, on strings as sequences of    *)
(* one-character strings                                                   *)
(***************************************************************************)
DigitChars == <<"0", "1", "2", "3", "4", "5", "6", "7", "8", "9">>
Signs == {"+", "-"}
Whitespace == {" "}

IsDigit(c) == \E i \in 1..Len(DigitChars) : DigitChars[i] = c
DigitVal(c) == (CHOOSE i \in 1..Len(DigitChars) : DigitChars[i] = c) - 1

RECURSIVE LStrip(_, _)
LStrip(s, cs) == IF s # <<>> /\ Head(s) \in cs THEN LStrip(Tail(s), cs) ELSE s

RECURSIVE RStrip(_, _)
RStrip(s, cs) ==
    IF s # <<>> /\ s[Len(s)] \in cs THEN RStrip(SubSeq(s, 1, Len(s) - 1), cs) ELSE s

Strip(s, cs) == RStrip(LStrip(s, cs), cs)
Replace(s, a, b) == [i \in 1..Len(s) |-> IF s[i] = a THEN b ELSE s[i]]
Contains(s, c) == \E i \in 1..Len(s) : s[i] = c

IsDigits(s) == s # <<>> /\ \A i \in 1..Len(s) : IsDigit(s[i])

RECURSIVE DigitsVal(_)
DigitsVal(s) ==
    IF s = <<>> THEN 0
    ELSE 10 * DigitsVal(SubSeq(s, 1, Len(s) - 1)) + DigitVal(s[Len(s)])

\* the outcome of a conversion: a value, or the exception it raises
Fail(exc) == [ok |-> FALSE, exc |-> exc, f |-> F(0)]
Ok(f) == [ok |-> TRUE, exc |-> "", f |-> f]
FailC(exc) == [ok |-> FALSE, exc |-> exc, c |-> Cx(F(0), F(0))]
OkC(c) == [ok |-> TRUE, exc |-> "", c |-> c]

\* a float literal without surrounding whitespace: [sign] digits
FloatLit(s) ==
    LET body == IF s # <<>> /\ Head(s) \in Signs THEN Tail(s) ELSE s
        sgn == IF s # <<>> /\ Head(s) = "-" THEN -1 ELSE 1
    IN IF ~IsDigits(body) THEN Fail("ValueError")
       ELSE IF sgn = -1 /\ DigitsVal(body) = 0 THEN Ok(NegZero)
       ELSE Ok(F(sgn * DigitsVal(body)))

\* float(str)
FloatOfStr(s) == FloatLit(Strip(s, Whitespace))

\* the imaginary literal in front of the "j": "", "+", "-" stand for 1, 1, -1
ImagLit(s) ==
    IF s = <<>> \/ s = <<"+">> THEN Ok(F(1))
    ELSE IF s = <<"-">> THEN Ok(F(-1))
    ELSE FloatLit(s)

\* complex(str): real | imag j | real sign imag j
ComplexOfStr(s) ==
    LET t == Strip(s, Whitespace) IN
    IF t = <<>> THEN FailC("ValueError")
    ELSE IF t[Len(t)] # "j"
    THEN LET r == FloatLit(t) IN IF r.ok THEN OkC(Cx(r.f, F(0))) ELSE FailC("ValueError")
    ELSE LET body == SubSeq(t, 1, Len(t) - 1)
             cuts == {k \in 2..Len(body) : body[k] \in Signs}
         IN IF cuts = {}
            THEN LET i == ImagLit(body) IN
                 IF i.ok THEN OkC(Cx(F(0), i.f)) ELSE FailC("ValueError")
            ELSE LET k == CHOOSE m \in cuts : \A n \in cuts : n <= m
                     r == FloatLit(SubSeq(body, 1, k - 1))
                     i == ImagLit(SubSeq(body, k, Len(body)))
                 IN IF r.ok /\ i.ok THEN OkC(Cx(r.f, i.f)) ELSE FailC("ValueError")

\* float(x) for any object
PyFloat(x) ==
    CASE x.kind = "str" -> FloatOfStr(x.s)
      [] x.kind = "num" -> Ok(F(x.v))
      [] x.kind = "nan" -> Ok(NaN)
      [] OTHER -> Fail("TypeError")

\* complex(x) for an object that is not a string
PyComplex(x) ==
    CASE x.kind = "complex" -> OkC(Cx(F(x.re), F(x.im)))
      [] x.kind = "num" -> OkC(Cx(F(x.v), F(0)))
      [] x.kind = "nan" -> OkC(Cx(NaN, F(0)))
      [] OTHER -> FailC("TypeError")

(***************************************************************************)
(* math.atan2 and cmath.phase, in units of pi/4                            *)
(***************************************************************************)
Atan2(y, x) ==
    CASE x = 0 /\ y = 0 -> 0
      [] x > 0 /\ y = 0 -> 0
      [] x > 0 /\ y = x -> 1
      [] x = 0 /\ y > 0 -> 2
      [] x < 0 /\ y = -x -> 3
      [] x < 0 /\ y = 0 -> 4
      [] x < 0 /\ y = x -> -3
      [] x = 0 /\ y < 0 -> -2
      [] x > 0 /\ y = -x -> -1

\* on floats: a NaN part gives NaN; the sign of a zero decides between pi and -pi
Atan2F(y, x) ==
    IF y.nan \/ x.nan THEN NaN
    ELSE IF y.v = 0 /\ y.nz /\ (x.v < 0 \/ (x.v = 0 /\ x.nz)) THEN F(-4)
    ELSE IF y.v = 0 /\ ~y.nz /\ x.v = 0 /\ x.nz THEN F(4)
    ELSE F(Atan2(y.v, x.v))
Phase(c) == Atan2F(c.im, c.re)

(***************************************************************************)
(* EEGPhaseAnalysis.parse_complex_value                                    *)
(***************************************************************************)
Return(c, p) ==
    [complex |-> c, phase |-> p, raised |-> FALSE, exc |-> "", logged |-> <<>>,
     propagated |-> FALSE]

CatchesValueErrorOnly(exc) == exc = "ValueError"

\* except Exception: every exception the conversions raise is one
Catches(exc) == exc \in {"ValueError", "TypeError", "AttributeError"}

ExceptReraises(exc, v) ==
    [complex |-> Cx(F(0), F(0)), phase |-> F(0), raised |-> TRUE, exc |-> exc,
     logged |-> <<v>>, propagated |-> TRUE]

ExceptNaNPhase(exc, v) ==
    IF Catches(exc)
    THEN [complex |-> Cx(F(0), F(0)), phase |-> NaN, raised |-> TRUE, exc |-> exc,
          logged |-> <<v>>, propagated |-> FALSE]
    ELSE [complex |-> Cx(F(0), F(0)), phase |-> NaN, raised |-> TRUE, exc |-> exc,
          logged |-> <<>>, propagated |-> TRUE]

\* the except handler: print the current val, return (0+0j, 0); an exception the
\* clause does not catch leaves the function
Except(exc, v) ==
    IF Catches(exc)
    THEN [complex |-> Cx(F(0), F(0)), phase |-> F(0), raised |-> TRUE, exc |-> exc,
          logged |-> <<v>>, propagated |-> FALSE]
    ELSE [complex |-> Cx(F(0), F(0)), phase |-> F(0), raised |-> TRUE, exc |-> exc,
          logged |-> <<>>, propagated |-> TRUE]

\* a list of two elements: float(val[0]), float(val[1].rstrip('i'))
ParseList2(v) ==
    LET real == PyFloat(v.items[1])
        elem == v.items[2]
    IN IF ~real.ok THEN Except(real.exc, v)
       ELSE IF elem.kind # "str" THEN Except("AttributeError", v)
       ELSE LET imag == FloatOfStr(RStrip(elem.s, {"i"})) IN
            IF ~imag.ok THEN Except(imag.exc, v)
            ELSE Return(Cx(real.f, imag.f), Atan2F(imag.f, real.f))

ParseStrComputedPhase(v) ==
    LET s1 == Strip(v.s, {"'", "\"", "[", "]"}) IN
    IF Contains(s1, "i") \/ Contains(s1, "j")
    THEN LET s2 == Replace(s1, "i", "j")
             c == ComplexOfStr(s2)
         IN IF c.ok THEN Return(c.c, Phase(c.c)) ELSE Except(c.exc, StrCell(s2))
    ELSE LET real == FloatOfStr(s1) IN
         IF real.ok THEN Return(Cx(real.f, F(0)), Phase(Cx(real.f, F(0))))
         ELSE Except(real.exc, StrCell(s1))

\* a string
ParseStr(v) ==
    LET s1 == Strip(v.s, {"'", "\"", "[", "]"}) IN
    IF Contains(s1, "i") \/ Contains(s1, "j")
    THEN LET s2 == Replace(s1, "i", "j")
             c == ComplexOfStr(s2)
         IN IF c.ok THEN Return(c.c, Phase(c.c)) ELSE Except(c.exc, StrCell(s2))
    ELSE LET real == FloatOfStr(s1) IN
         IF real.ok THEN Return(Cx(real.f, F(0)), F(0)) ELSE Except(real.exc, StrCell(s1))

\* any other object
ParseDirect(v) ==
    LET c == PyComplex(v) IN
    IF c.ok THEN Return(c.c, Phase(c.c)) ELSE Except(c.exc, v)

parse_complex_value(v) ==
    IF v.kind = "complex" THEN Return(Cx(F(v.re), F(v.im)), Phase(Cx(F(v.re), F(v.im))))
    ELSE IF v.kind = "list" /\ Len(v.items) = 2 THEN ParseList2(v)
    ELSE LET v1 == IF v.kind = "list" /\ Len(v.items) = 1 THEN v.items[1] ELSE v
         IN IF v1.kind = "str" THEN ParseStr(v1) ELSE ParseDirect(v1)


(***************************************************************************)
(* Exact numbers (a + b*sqrt(2))/2 and the unit vectors e^{i k pi/4}       *)
(***************************************************************************)
Q2(a, b) == [a |-> a, b |-> b]

Cos8(k) ==
    LET m == k % 8 IN
    CASE m = 0 -> Q2(2, 0)
      [] m \in {1, 7} -> Q2(0, 1)
      [] m \in {2, 6} -> Q2(0, 0)
      [] m \in {3, 5} -> Q2(0, -1)
      [] m = 4 -> Q2(-2, 0)

ExpICosOnly(p) ==
    IF p.nan THEN [nan |-> TRUE, x |-> Q2(0, 0), y |-> Q2(0, 0)]
    ELSE [nan |-> FALSE, x |-> Cos8(p.v), y |-> Q2(0, 0)]

\* np.exp(1j * phase): cos + i sin
ExpI(p) ==
    IF p.nan THEN [nan |-> TRUE, x |-> Q2(0, 0), y |-> Q2(0, 0)]
    ELSE [nan |-> FALSE, x |-> Cos8(p.v), y |-> Cos8(p.v - 2)]

RECURSIVE Gcd(_, _)
Gcd(m, n) == IF n = 0 THEN m ELSE Gcd(n, m % n)

RECURSIVE SumQ2(_)
SumQ2(qs) ==
    IF qs = <<>> THEN Q2(0, 0)
    ELSE LET r == SumQ2(Tail(qs)) IN Q2(Head(qs).a + r.a, Head(qs).b + r.b)

\* An ITPC value is kept by its exact square (p + q*sqrt(2))/d, in lowest terms
ItpcNaN == [nan |-> TRUE, p |-> 0, q |-> 0, d |-> 1]
ItpcVal(p, q, d) ==
    LET g == Gcd(Gcd(Abs(p), Abs(q)), d) IN
    [nan |-> FALSE, p |-> p \div g, q |-> q \div g, d |-> d \div g]

ItpcOne == ItpcVal(1, 0, 1)
ItpcZero == ItpcVal(0, 0, 1)

\* sign of m + q*sqrt(2) >= 0, decided on integers
NonNegQ2(m, q) ==
    CASE m >= 0 /\ q >= 0 -> TRUE
      [] m < 0 /\ q < 0 -> FALSE
      [] m >= 0 /\ q < 0 -> m * m >= 2 * q * q
      [] m < 0 /\ q >= 0 -> 2 * q * q >= m * m

ItpcGeqZero(v) == ~v.nan /\ NonNegQ2(v.p, v.q)
ItpcLeqOne(v) == ~v.nan /\ NonNegQ2(v.d - v.p, -v.q)

(***************************************************************************)
(* EEGPhaseAnalysis.compute_itpc                                           *)
(***************************************************************************)
\* abs(mean(vectors)) of one frequency column
MeanAbsNoDivide(vs) ==
    LET X == SumQ2([i \in 1..Len(vs) |-> vs[i].x])
        Y == SumQ2([i \in 1..Len(vs) |-> vs[i].y])
    IN IF \E i \in 1..Len(vs) : vs[i].nan THEN ItpcNaN
       ELSE ItpcVal(X.a * X.a + 2 * X.b * X.b + Y.a * Y.a + 2 * Y.b * Y.b,
                    2 * (X.a * X.b + Y.a * Y.b), 4)

MeanOfAbs(vs) ==
    IF \E i \in 1..Len(vs) : vs[i].nan THEN ItpcNaN ELSE ItpcOne

MeanAbs(vs) ==
    LET n == Len(vs)
        X == SumQ2([i \in 1..n |-> vs[i].x])
        Y == SumQ2([i \in 1..n |-> vs[i].y])
    IN IF \E i \in 1..n : vs[i].nan THEN ItpcNaN
       ELSE ItpcVal(X.a * X.a + 2 * X.b * X.b + Y.a * Y.a + 2 * Y.b * Y.b,
                    2 * (X.a * X.b + Y.a * Y.b), 4 * n * n)

\* phases is np.array(list of rows): an empty list is the 1-D array of shape (0,),
\* whose mean along axis 0 is the scalar nan
compute_itpc(phases) ==
    IF phases = <<>> THEN [ndarray |-> FALSE, scalar |-> ItpcNaN]
    ELSE [ndarray |-> TRUE,
          vec |-> [j \in 1..Len(phases[1]) |->
                      MeanAbs([i \in 1..Len(phases) |-> ExpI(phases[i][j])])]]


(***************************************************************************)
(* EEGPhaseAnalysis.__init__: the configuration                            *)
(***************************************************************************)
\* the columns complex_val_1..complex_val_57 that preprocess_data reads, whatever
\* num_frequencies is; 57 in the source, kept small here
NumColumns == 2

\* the default of num_electrodes, which main uses; 32 in the source, kept small here
DefaultNumElectrodes == 2

\* the default of num_frequencies, which main uses: one more than the columns read
\* (58 against 57 in the source)
DefaultNumFrequencies == NumColumns + 1

trial_conditions ==
    << [name |-> "GN", start |-> 1, end |-> 30],
       [name |-> "GS", start |-> 31, end |-> 60],
       [name |-> "UN", start |-> 61, end |-> 90],
       [name |-> "US", start |-> 91, end |-> 120] >>

ConditionNames == {trial_conditions[i].name : i \in 1..Len(trial_conditions)}
ConditionOf(name) ==
    trial_conditions[CHOOSE i \in 1..Len(trial_conditions) : trial_conditions[i].name = name]

EEGPhaseAnalysis(num_frequencies, num_electrodes) ==
    [num_frequencies |-> num_frequencies, num_electrodes |-> num_electrodes]

(***************************************************************************)
(* EEGPhaseAnalysis.preprocess_data.  A DataFrame is [columns, rows]:      *)
(* columns says which columns the table has, rows holds for each row its   *)
(* stimuli, its electrode_number and its cells complex_val_k; a row is     *)
(* known by its index label, its position in the table.                    *)
(***************************************************************************)
RECURSIVE Flatten(_)
Flatten(ss) == IF ss = <<>> THEN <<>> ELSE Head(ss) \o Flatten(Tail(ss))

Indices(df) == [i \in 1..Len(df.rows) |-> i]

InRangeExclusive(x, start, end) == x > start /\ x < end

InRange(x, start, end) == x >= start /\ x <= end

\* data[(data['stimuli'] >= start) & (data['stimuli'] <= end)], as index labels
condition_subset(df, cond) ==
    LET Keep(i) == InRange(df.rows[i].stimuli, cond.start, cond.end)
    IN SelectSeq(Indices(df), Keep)

RECURSIVE InsertByStimuli(_, _, _)
InsertByStimuli(df, i, sorted) ==
    IF sorted = <<>> THEN <<i>>
    ELSE IF df.rows[i].stimuli < df.rows[Head(sorted)].stimuli THEN <<i>> \o sorted
    ELSE <<Head(sorted)>> \o InsertByStimuli(df, i, Tail(sorted))

RECURSIVE SortByStimuli(_, _)
SortByStimuli(df, idx) ==
    IF idx = <<>> THEN <<>>
    ELSE InsertByStimuli(df, Head(idx), SortByStimuli(df, Tail(idx)))

electrode_data_sorted(df, cond, electrode) ==
    LET Keep(i) == df.rows[i].electrode_number = electrode
    IN SortByStimuli(df, SelectSeq(condition_subset(df, cond), Keep))

electrode_data_any(df, cond, electrode) == condition_subset(df, cond)

\* condition_subset[condition_subset['electrode_number'] == electrode]
electrode_data(df, cond, electrode) ==
    LET Keep(i) == df.rows[i].electrode_number = electrode
    IN SelectSeq(condition_subset(df, cond), Keep)

\* [self.parse_complex_value(row[col]) for col in complex_columns]
row_complex_with_phase(row) ==
    [j \in 1..NumColumns |-> parse_complex_value(row.cells[j])]

\* the (condition, electrode) pairs in the order the loops visit them
BucketOrder(self) ==
    Flatten([c \in 1..Len(trial_conditions) |->
                [e \in 1..self.num_electrodes |-> <<trial_conditions[c], e>>]])

\* the rows the loops parse, in order
RowOrder(self, df) ==
    Flatten([b \in 1..Len(BucketOrder(self)) |->
                electrode_data(df, BucketOrder(self)[b][1], BucketOrder(self)[b][2])])

KeyError(column, k) == [type |-> "KeyError", column |-> column, k |-> k]

bucket_of_accumulating(df, cond, electrode) ==
    LET idx == Flatten([k \in 1..electrode |-> electrode_data(df, cond, k)]) IN
    [complex |-> [n \in 1..Len(idx) |->
                     [j \in 1..NumColumns |->
                         row_complex_with_phase(df.rows[idx[n]])[j].complex]],
     phases |-> [n \in 1..Len(idx) |->
                    [j \in 1..NumColumns |->
                        row_complex_with_phase(df.rows[idx[n]])[j].phase]]]

\* complex_values and phase_values, started empty for every condition and electrode
bucket_of(df, cond, electrode) ==
    LET idx == electrode_data(df, cond, electrode) IN
    [complex |-> [n \in 1..Len(idx) |->
                     [j \in 1..NumColumns |->
                         row_complex_with_phase(df.rows[idx[n]])[j].complex]],
     phases |-> [n \in 1..Len(idx) |->
                    [j \in 1..NumColumns |->
                        row_complex_with_phase(df.rows[idx[n]])[j].phase]]]

\* what the except handler of parse_complex_value printed for these cells
Logged(cells) == Flatten([j \in 1..Len(cells) |-> parse_complex_value(cells[j]).logged])

preprocess_data(self, df) ==
    LET missing == (1..NumColumns) \ df.columns.complex
        order == RowOrder(self, df)
    IN IF ~df.columns.stimuli
       THEN [raised |-> TRUE, error |-> KeyError("stimuli", 0), logged |-> <<>>]
       ELSE IF ~df.columns.electrode_number
       THEN [raised |-> TRUE, error |-> KeyError("electrode_number", 0), logged |-> <<>>]
       ELSE IF missing # {} /\ order # <<>>
       THEN LET m == CHOOSE k \in missing : \A n \in missing : k <= n IN
            [raised |-> TRUE, error |-> KeyError("complex_val", m),
             logged |-> Logged([j \in 1..(m - 1) |-> df.rows[order[1]].cells[j]])]
       ELSE IF \E n \in 1..Len(order), j \in 1..NumColumns :
                    parse_complex_value(df.rows[order[n]].cells[j]).propagated
       THEN \* an exception that leaves parse_complex_value leaves preprocess_data
            [raised |-> TRUE, error |-> [type |-> "Exception"], logged |-> <<>>]
       ELSE [raised |-> FALSE,
             out |-> [c \in ConditionNames |->
                        [e \in 1..self.num_electrodes |->
                            bucket_of(df, ConditionOf(c), e)]],
             logged |-> Flatten([n \in 1..Len(order) |->
                                    Logged([j \in 1..NumColumns |->
                                               df.rows[order[n]].cells[j]])])]

(***************************************************************************)
(* analyze_itpc (its loop), export_itpc_results, summary_statistics        *)
(***************************************************************************)
itpc_of(preprocessed) ==
    [c \in DOMAIN preprocessed |->
        [e \in DOMAIN preprocessed[c] |->
            [itpc |-> compute_itpc(preprocessed[c][e].phases),
             complex_data |-> preprocessed[c][e].complex]]]

export_rows_dropna(self, results) ==
    LET rows == [b \in 1..Len(BucketOrder(self)) |->
                    LET c == BucketOrder(self)[b][1].name
                        e == BucketOrder(self)[b][2]
                        v == results[c][e].itpc
                    IN [Condition |-> c, Electrode |-> e,
                        ITPC |-> IF v.ndarray THEN [field |-> "list", items |-> v.vec]
                                 ELSE [field |-> "empty"]]]
        Kept(r) == r.ITPC.field # "empty"
    IN SelectSeq(rows, Kept)

\* the rows of export_df, one per condition and electrode in the order of the
\* loops; to_csv writes a list as its text and a scalar nan as the empty field
export_rows(self, results) ==
    [b \in 1..Len(BucketOrder(self)) |->
        LET c == BucketOrder(self)[b][1].name
            e == BucketOrder(self)[b][2]
            v == results[c][e].itpc
        IN [Condition |-> c, Electrode |-> e,
            ITPC |-> IF v.ndarray THEN [field |-> "list", items |-> v.vec]
                     ELSE [field |-> "empty"]]]

\* mean, std, min, max and median of the per-electrode mean ITPC are nan as soon
\* as one electrode's value is; their values are not computed here
summary_statistics(results) ==
    [c \in DOMAIN results |->
        [nan |-> \E e \in DOMAIN results[c] :
                    LET v == results[c][e].itpc IN
                    IF v.ndarray THEN \E j \in 1..Len(v.vec) : v.vec[j].nan
                    ELSE v.scalar.nan,
         electrodes |-> Cardinality(DOMAIN results[c])]]


(***************************************************************************)
(* Bounds of the inputs                                                    *)
(***************************************************************************)
MaxMag == 2          \* magnitudes of the parts of a cell value
MaxCells == 3        \* entries of a phase matrix handed to compute_itpc
MaxRows == 2         \* rows of the table main loads
MaxGroupRows == 2    \* rows of a table handed to preprocess_data
MaxElectrodes == 2   \* num_electrodes of the analyzer handed a table

Unset == [unset |-> TRUE]

(***************************************************************************)
(* Inputs of parse_complex_value                                           *)
(***************************************************************************)
RECURSIVE Digits(_)
Digits(n) ==
    IF n < 10 THEN <<DigitChars[n + 1]>>
    ELSE Digits(n \div 10) \o <<DigitChars[(n % 10) + 1]>>

\* pairs of magnitudes whose complex number has an argument on the pi/4 grid
GridMags == {m \in (0..MaxMag) \X (0..MaxMag) : m[1] = 0 \/ m[2] = 0 \/ m[1] = m[2]}

WrapPairs ==
    { <<<<>>, <<>>>>, <<<<"'">>, <<"'">>>>, <<<<"[">>, <<"]">>>>, <<<<" ">>, <<" ">>>>,
      <<<<"[", "'">>, <<"'", "]">>>>, <<<<"\"">>, <<>>>> }
SignTexts == {<<>>, <<"+">>, <<"-">>}
UnitTexts == {<<>>, <<"i">>, <<"j">>, <<"a">>, <<"i", "i">>}
NumTexts == {<<>>} \cup {Digits(m) : m \in 0..MaxMag}

\* the magnitude a run of digits stands for; no digits before a unit stand for 1
Magnitude(n) == IF n = <<>> THEN 1 ELSE DigitsVal(n)

\* strings: wrap, sign, digits, sign, digits, unit, wrap, each part possibly empty,
\* with at most one number or two numbers on the grid
StrInputs ==
    {StrCell(t[1][1] \o t[2] \o t[3] \o t[4] \o t[5] \o t[6] \o t[1][2]) :
        t \in {x \in WrapPairs \X SignTexts \X NumTexts \X SignTexts \X NumTexts \X UnitTexts :
                 \/ x[3] = <<>>
                 \/ x[5] = <<>> /\ x[4] = <<>>
                 \/ <<Magnitude(x[3]), Magnitude(x[5])>> \in GridMags}}

IntText(a) == IF a < 0 THEN <<"-">> \o Digits(-a) ELSE Digits(a)
SignedText(a) == IF a < 0 THEN <<"-">> \o Digits(-a) ELSE <<"+">> \o Digits(a)

\* pairs of parts whose complex number has an argument on the pi/4 grid
GridParts ==
    {z \in (-MaxMag..MaxMag) \X (-MaxMag..MaxMag) :
        <<Abs(z[1]), Abs(z[2])>> \in GridMags}

\* an element of a list: a number as a number or as text, with or without a unit
ItemsOf(a) ==
    {NumCell(a), StrCell(IntText(a)), StrCell(IntText(a) \o <<"i">>),
     StrCell(IntText(a) \o <<"j">>), StrCell(<<" ">> \o IntText(a) \o <<"i", "i">>)}
OddItems == {StrCell(<<"a">>), StrCell(<<>>), NanCell, NoneCell, ComplexCell(1, 1)}

ListInputs ==
    UNION {{ListCell(<<x, y>>) : x \in ItemsOf(z[1]) \cup OddItems,
                                 y \in ItemsOf(z[2]) \cup OddItems} : z \in GridParts}
    \cup {ListCell(<<x>>) : x \in UNION {ItemsOf(a) : a \in -MaxMag..MaxMag} \cup OddItems}
    \cup {ListCell(<<>>), ListCell(<<NumCell(1), NumCell(0), NumCell(0)>>),
          ListCell(<<StrCell(<<"1", "+", "1", "i">>)>>),
          ListCell(<<ListCell(<<StrCell(<<"1">>), StrCell(<<"1", "i">>)>>)>>)}

ScalarInputs ==
    {ComplexCell(z[1], z[2]) : z \in GridParts}
    \cup {NumCell(a) : a \in -MaxMag..MaxMag} \cup {NanCell, NoneCell}

\* r * e^{i k pi/4}, with both parts r on the diagonals
SgnQ2(q) == IF q.a + q.b > 0 THEN 1 ELSE IF q.a + q.b < 0 THEN -1 ELSE 0
Synth(r, k) == <<r * SgnQ2(Cos8(k)), r * SgnQ2(Cos8(k - 2))>>

\* the encodings of a complex value: native, [real, imaginary] with each element a
\* number or text and the second possibly ending in i, text ending in i or j
EncNative(z) == {ComplexCell(z[1], z[2])}
EncList(z) ==
    {ListCell(<<x, y>>) :
        x \in {NumCell(z[1]), StrCell(IntText(z[1]))},
        y \in {NumCell(z[2]), StrCell(IntText(z[2])), StrCell(IntText(z[2]) \o <<"i">>)}}
EncStr(z) ==
    {StrCell(w[1] \o IntText(z[1]) \o SignedText(z[2]) \o u \o w[2]) :
        w \in WrapPairs, u \in {<<"i">>, <<"j">>}}
Encodings(z) == EncNative(z) \cup EncList(z) \cup EncStr(z)

Angles == -3..4
Synthesized == UNION {Encodings(Synth(r, k)) : r \in 1..MaxMag, k \in Angles}

(***************************************************************************)
(* A call of parse_complex_value                                           *)
(***************************************************************************)
InitParse ==
    /\ pc = "parse_complex_value"
    /\ \/ val \in StrInputs
       \/ val \in ListInputs
       \/ val \in ScalarInputs
       \/ val \in Synthesized
    /\ parsed = Unset /\ log = <<>>
    /\ phase_matrix = Unset /\ itpc = Unset
    /\ analyzer = Unset /\ disk = Unset /\ data = Unset /\ preprocessed_data = Unset
    /\ itpc_results = Unset /\ out_file = Unset /\ summary = Unset
    /\ ret = Unset /\ warned = FALSE /\ parsed_itpc = Unset

ParseCall ==
    /\ pc = "parse_complex_value"
    /\ parsed' = parse_complex_value(val)
    /\ log' = log \o parse_complex_value(val).logged
    /\ pc' = "parsed"
    /\ UNCHANGED <<parsed_itpc, val, phase_matrix, itpc, analyzer, disk, data, preprocessed_data,
                   itpc_results, out_file, summary, ret, warned>>

SpecParse == InitParse /\ [][ParseCall]_vars

(***************************************************************************)
(* A call of compute_itpc                                                  *)
(***************************************************************************)
PhaseValues == {F(k) : k \in -3..4}

\* the matrices of r trials and c frequencies with at most MaxCells entries
Shapes == {sh \in (1..MaxCells) \X (1..MaxCells) : sh[1] * sh[2] <= MaxCells}
PhaseMatrices ==
    UNION {[1..sh[1] -> [1..sh[2] -> PhaseValues]] : sh \in Shapes}

\* trials spread over the whole turn: n phases 2 pi k / n, started anywhere
UniformCounts == {2, 4, 8}
UniformMatrices ==
    {[i \in 1..n |-> <<F(((i - 1 + s) % n) * (8 \div n))>>] :
        n \in UniformCounts, s \in 0..7}

\* matrices with a nan phase
NaNMatrices ==
    {<<<<NaN>>>>, <<<<F(0), NaN>>>>, <<<<F(1)>>, <<NaN>>>>, <<<<NaN, F(0)>>, <<F(4), F(0)>>>>}

InitItpc ==
    /\ pc = "compute_itpc"
    /\ \/ phase_matrix \in PhaseMatrices
       \/ phase_matrix \in UniformMatrices
       \/ phase_matrix \in NaNMatrices
       \/ phase_matrix = <<>>
    /\ itpc = Unset
    /\ val = Unset /\ parsed = Unset /\ log = <<>>
    /\ analyzer = Unset /\ disk = Unset /\ data = Unset /\ preprocessed_data = Unset
    /\ itpc_results = Unset /\ out_file = Unset /\ summary = Unset
    /\ ret = Unset /\ warned = FALSE /\ parsed_itpc = Unset

ItpcCall ==
    /\ pc = "compute_itpc"
    /\ itpc' = compute_itpc(phase_matrix)
    /\ pc' = "computed"
    /\ UNCHANGED <<parsed_itpc, val, parsed, log, phase_matrix, analyzer, disk, data,
                   preprocessed_data, itpc_results, out_file, summary, ret, warned>>

SpecItpc == InitItpc /\ [][ItpcCall]_vars

(***************************************************************************)
(* A call of preprocess_data                                               *)
(***************************************************************************)
AllColumns == [stimuli |-> TRUE, electrode_number |-> TRUE, complex |-> 1..NumColumns]

\* stimuli at and around the ends of every range
StimuliValues ==
    UNION {{trial_conditions[i].start - 1, trial_conditions[i].start,
            trial_conditions[i].end, trial_conditions[i].end + 1} :
                i \in 1..Len(trial_conditions)}

\* electrode numbers around the ends of 1..n: 0 and 1 for a single electrode, n and
\* n + 1 otherwise
ElectrodeValues(n) == IF n = 1 THEN {0, 1} ELSE {n, n + 1}

\* the table of the rows t (stimuli, electrode_number); row i holds the number i in
\* every cell, so that the row a parsed trial came from can be read off the matrices
GroupTable(t) ==
    [columns |-> AllColumns,
     rows |-> [i \in 1..Len(t) |->
                  [stimuli |-> t[i][1], electrode_number |-> t[i][2],
                   cells |-> [j \in 1..NumColumns |-> NumCell(i)]]]]

InitGroup ==
    /\ pc = "preprocess_data"
    /\ analyzer \in {EEGPhaseAnalysis(DefaultNumFrequencies, n) : n \in {1, MaxElectrodes}}
    /\ \E len \in 0..MaxGroupRows :
          \E t \in [1..len -> StimuliValues \X ElectrodeValues(analyzer.num_electrodes)] :
              data = GroupTable(t)
    /\ preprocessed_data = Unset /\ log = <<>>
    /\ val = Unset /\ parsed = Unset /\ phase_matrix = Unset /\ itpc = Unset
    /\ disk = Unset /\ itpc_results = Unset /\ out_file = Unset /\ summary = Unset
    /\ ret = Unset /\ warned = FALSE /\ parsed_itpc = Unset

PreprocessCall ==
    /\ pc = "preprocess_data"
    /\ LET r == preprocess_data(analyzer, data) IN
          /\ log' = log \o r.logged
          /\ IF r.raised
             THEN pc' = "raised" /\ preprocessed_data' = r.error
             ELSE pc' = "preprocessed" /\ preprocessed_data' = r.out
    /\ UNCHANGED <<parsed_itpc, val, parsed, phase_matrix, itpc, analyzer, disk, data,
                   itpc_results, out_file, summary, ret, warned>>

\* the loop of analyze_itpc over what preprocess_data returned
AnalyzeCall ==
    /\ pc = "preprocessed"
    /\ itpc_results' = itpc_of(preprocessed_data)
    /\ pc' = "analyzed"
    /\ UNCHANGED <<parsed_itpc, val, parsed, log, phase_matrix, itpc, analyzer, disk, data,
                   preprocessed_data, out_file, summary, ret, warned>>

\* export_itpc_results on those results
ExportCall ==
    /\ pc = "analyzed"
    /\ out_file' = export_rows(analyzer, itpc_results)
    /\ pc' = "exported"
    /\ UNCHANGED <<parsed_itpc, val, parsed, log, phase_matrix, itpc, analyzer, disk, data,
                   preprocessed_data, itpc_results, summary, ret, warned>>

GroupNext == PreprocessCall \/ AnalyzeCall \/ ExportCall

SpecGroup == InitGroup /\ [][GroupNext]_vars

(***************************************************************************)
(* main: load_data, preprocess_data, the loop of analyze_itpc,             *)
(* export_itpc_results, summary_statistics; any exception ends in the      *)
(* except clause                                                           *)
(***************************************************************************)
Cells(first, rest) == [j \in 1..NumColumns |-> IF j = 1 THEN first ELSE rest]
Row(stimuli, electrode, cells) ==
    [stimuli |-> stimuli, electrode_number |-> electrode, cells |-> cells]

Text_1 == StrCell(<<"1", "+", "0", "j">>)
Text_m1 == StrCell(<<"-", "1", "+", "0", "j">>)
Text_i == StrCell(<<"0", "+", "1", "i">>)
Text_1i == StrCell(<<"1", "+", "1", "j">>)
Text_m1mi == StrCell(<<"-", "1", "-", "1", "i">>)
Text_abc == StrCell(<<"a", "b", "c">>)

\* the rows a loaded table is made of: cells as read_csv gives them (text, or nan
\* for an empty field)
MainRows ==
    { Row(1, 1, Cells(Text_1, Text_1)),
      Row(1, 1, Cells(Text_m1, Text_m1)),
      Row(30, 1, Cells(Text_i, Text_abc)),
      Row(1, 1, Cells(NanCell, Text_1i)),
      Row(31, DefaultNumElectrodes, Cells(Text_abc, Text_abc)),
      Row(1, DefaultNumElectrodes + 1, Cells(Text_1, Text_1)),
      Row(121, 1, Cells(Text_1, Text_1)),
      Row(120, 1, Cells(Text_m1mi, Text_1)) }

MainTables(columns) ==
    UNION {{[columns |-> columns, rows |-> r] : r \in [1..len -> MainRows]} :
           len \in 0..MaxRows}

ColumnFaults ==
    {[AllColumns EXCEPT !.stimuli = FALSE], [AllColumns EXCEPT !.electrode_number = FALSE]}
    \cup {[AllColumns EXCEPT !.complex = @ \ {k}] : k \in 1..NumColumns}

\* the file system main finds: at most one thing wrong with it
Disks ==
    {[exists |-> TRUE, writable |-> TRUE, table |-> t] : t \in MainTables(AllColumns)}
    \cup {[exists |-> FALSE, writable |-> TRUE, table |-> t] : t \in MainTables(AllColumns)}
    \cup {[exists |-> TRUE, writable |-> FALSE, table |-> t] : t \in MainTables(AllColumns)}
    \cup UNION {{[exists |-> TRUE, writable |-> TRUE, table |-> t] : t \in MainTables(cf)} :
                cf \in ColumnFaults}

Init ==
    /\ pc = "main"
    /\ disk \in Disks
    /\ analyzer = EEGPhaseAnalysis(DefaultNumFrequencies, DefaultNumElectrodes)
    /\ data = Unset /\ preprocessed_data = Unset /\ itpc_results = Unset
    /\ out_file = Unset /\ summary = Unset /\ ret = Unset /\ warned = FALSE /\ parsed_itpc = Unset
    /\ log = <<>>
    /\ val = Unset /\ parsed = Unset /\ phase_matrix = Unset /\ itpc = Unset

NotMain == <<val, parsed, phase_matrix, itpc, analyzer, disk, parsed_itpc>>

FailedSilently(e) ==
    /\ pc' = "failed"
    /\ ret' = [none |-> TRUE, error |-> e]
    /\ UNCHANGED warned

\* except Exception as e: warnings.warn(...); return None, None
Failed(e) ==
    /\ pc' = "failed"
    /\ warned' = TRUE
    /\ ret' = [none |-> TRUE, error |-> e]

\* analyze_itpc: full_data = self.load_data()
LoadData ==
    /\ pc = "main"
    /\ IF disk.exists
       THEN /\ data' = disk.table
            /\ pc' = "loaded"
            /\ UNCHANGED <<ret, warned>>
       ELSE /\ Failed([type |-> "FileNotFoundError"])
            /\ UNCHANGED data
    /\ UNCHANGED <<log, preprocessed_data, itpc_results, out_file, summary>>
    /\ UNCHANGED NotMain

\* analyze_itpc: preprocessed_data = self.preprocess_data(full_data)
Preprocess ==
    /\ pc = "loaded"
    /\ LET r == preprocess_data(analyzer, data) IN
          /\ log' = log \o r.logged
          /\ IF r.raised
             THEN Failed(r.error) /\ UNCHANGED preprocessed_data
             ELSE /\ preprocessed_data' = r.out
                  /\ pc' = "preprocessed"
                  /\ UNCHANGED <<ret, warned>>
    /\ UNCHANGED <<data, itpc_results, out_file, summary>>
    /\ UNCHANGED NotMain

\* analyze_itpc: the loop over the buckets, and its return
Analyze ==
    /\ pc = "preprocessed"
    /\ itpc_results' = itpc_of(preprocessed_data)
    /\ pc' = "analyzed"
    /\ UNCHANGED <<log, data, preprocessed_data, out_file, summary, ret, warned>>
    /\ UNCHANGED NotMain

\* export_itpc_results
Export ==
    /\ pc = "analyzed"
    /\ IF disk.writable
       THEN /\ out_file' = export_rows(analyzer, itpc_results)
            /\ pc' = "exported"
            /\ UNCHANGED <<ret, warned>>
       ELSE /\ Failed([type |-> "OSError"])
            /\ UNCHANGED out_file
    /\ UNCHANGED <<log, data, preprocessed_data, itpc_results, summary>>
    /\ UNCHANGED NotMain

\* an exception raised while the summary is computed or printed; no table makes
\* summary_statistics raise one (numpy's reductions take nan), the interpreter can
SummaryFault == [type |-> "MemoryError"]

SummarizeBeforeExport ==
    /\ pc = "analyzed"
    /\ summary' = summary_statistics(itpc_results)
    /\ ret' = [none |-> FALSE, results |-> itpc_results,
               summary |-> summary_statistics(itpc_results)]
    /\ pc' = "returned"
    /\ UNCHANGED <<log, data, preprocessed_data, itpc_results, out_file, warned>>
    /\ UNCHANGED NotMain

\* summary_statistics, the printed summary, return itpc_results, summary; an
\* exception on the way is caught by main's except clause
Summarize ==
    /\ pc = "exported"
    /\ \/ /\ summary' = summary_statistics(itpc_results)
          /\ ret' = [none |-> FALSE, results |-> itpc_results,
                     summary |-> summary_statistics(itpc_results)]
          /\ pc' = "returned"
          /\ UNCHANGED warned
       \/ /\ Failed(SummaryFault)
          /\ UNCHANGED summary
    /\ UNCHANGED <<log, data, preprocessed_data, itpc_results, out_file>>
    /\ UNCHANGED NotMain

\* the text of a float in the file: nan, or the shortest decimal that reads back as
\* the same float
FloatRepr(x) == IF x.nan THEN [tok |-> "nan"] ELSE [tok |-> "float", value |-> x]

\* pd.read_csv on a field of the ITPC column: the empty field is the float nan, any
\* other field is its text, here the text of a list of floats
read_csv_cell(f) ==
    IF f.field = "empty" THEN NanCell
    ELSE [kind |-> "str", tokens |-> [j \in 1..Len(f.items) |-> FloatRepr(f.items[j])]]

\* ast.literal_eval: a list display of numbers is read as the list; the name nan is no
\* literal, and an argument that is neither text nor a node is refused
literal_eval(x) ==
    IF x.kind # "str" THEN [ok |-> FALSE, exc |-> "ValueError"]
    ELSE IF \E j \in 1..Len(x.tokens) : x.tokens[j].tok = "nan"
    THEN [ok |-> FALSE, exc |-> "ValueError"]
    ELSE [ok |-> TRUE, value |-> [j \in 1..Len(x.tokens) |-> x.tokens[j].value]]

\* parse_itpc_list: a list as it is, else literal_eval; on any exception the empty list
parse_itpc_list(itpc_str) ==
    IF itpc_str.kind = "list" THEN itpc_str.items
    ELSE LET r == literal_eval(itpc_str) IN
         IF r.ok THEN r.value ELSE <<>>

\* load_and_process_itpc_data run on the file main has written: read_csv, then
\* parse_itpc_list applied to every field of the ITPC column
LoadAndProcess ==
    /\ pc = "returned" /\ parsed_itpc = Unset
    /\ parsed_itpc' = [b \in 1..Len(out_file) |->
                          parse_itpc_list(read_csv_cell(out_file[b].ITPC))]
    /\ UNCHANGED <<pc, log, data, preprocessed_data, itpc_results, out_file, summary,
                   ret, warned>>
    /\ UNCHANGED <<val, parsed, phase_matrix, itpc, analyzer, disk>>

Next == LoadData \/ Preprocess \/ Analyze \/ Export \/ Summarize \/ LoadAndProcess

Spec == Init /\ [][Next]_vars

(***************************************************************************)
(* Properties                                                              *)
(***************************************************************************)
IsFloat(f) == f.nan \in BOOLEAN /\ f.nz \in BOOLEAN /\ f.v \in Int
Zero == Cx(F(0), F(0))

\* what the handler can have printed for val: val itself, the element a list of
\* one wraps, or the text after strip and replace
Printable(v) ==
    LET u == IF v.kind = "list" /\ Len(v.items) = 1 THEN v.items[1] ELSE v IN
    {v, u} \cup (IF u.kind = "str"
                 THEN {StrCell(Strip(u.s, {"'", "\"", "[", "]"})),
                       StrCell(Replace(Strip(u.s, {"'", "\"", "[", "]"}), "i", "j"))}
                 ELSE {})

\* C2: parse_complex_value is total: for every argument it returns a (complex, phase)
\* pair and lets no exception out; whenever a conversion raises, the pair is
\* (0+0j, 0) and the value is printed.
C2_ParseTotal ==
    pc = "parsed" =>
        /\ ~parsed.propagated
        /\ IsFloat(parsed.complex.re) /\ IsFloat(parsed.complex.im) /\ IsFloat(parsed.phase)
        /\ parsed.raised =>
              /\ parsed.complex = Zero /\ parsed.phase = F(0)
              /\ Len(log) = 1 /\ log[1] \in Printable(val)
        /\ ~parsed.raised => log = <<>>

\* a list whose second element is a number: .rstrip raises AttributeError
C2_Witness ==
    /\ pc = "parsed" /\ parsed.raised /\ parsed.exc = "AttributeError"
    /\ val.kind = "list" /\ log = <<val>>

\* C10 as stated: for every angle k*pi/4 and magnitude r > 0, parse_complex_value
\* recovers the angle from every encoding of r*e^{i k pi/4}: native complex,
\* [real, imaginary] list, text with an i or j suffix.
C10_Original ==
    pc = "parsed" =>
        \A r \in 1..MaxMag, k \in Angles :
            val \in Encodings(Synth(r, k)) => ~parsed.raised /\ parsed.phase = F(k)

\* [0, 1], both numbers, for e^{i pi/2}: .rstrip raises and the phase returned is 0
C10_Witness ==
    /\ pc = "parsed"
    /\ val = ListCell(<<NumCell(0), NumCell(1)>>)
    /\ val \in EncList(Synth(1, 2))
    /\ parsed.raised /\ parsed.exc = "AttributeError"
    /\ parsed.complex = Zero /\ parsed.phase = F(0)

\* the list's second element is a number, not text
NumericImaginary(v) == v.kind = "list" /\ Len(v.items) = 2 /\ v.items[2].kind # "str"

\* Every other encoding recovers the angle: the list with a number as its second
\* element is the only one that does not.
PhaseRecoveredFromText ==
    pc = "parsed" =>
        \A r \in 1..MaxMag, k \in Angles :
            (val \in Encodings(Synth(r, k)) /\ ~NumericImaginary(val)) =>
                ~parsed.raised /\ parsed.phase = F(k)

\* C6: compute_itpc on a matrix of exactly one trial returns 1 at every frequency
\* column, whatever the phase angles are.
C6_SingleTrialIsOne ==
    (pc = "computed" /\ Len(phase_matrix) = 1) =>
        /\ itpc.ndarray
        /\ Len(itpc.vec) = Len(phase_matrix[1])
        /\ \A j \in 1..Len(phase_matrix[1]) :
              ~phase_matrix[1][j].nan => itpc.vec[j] = ItpcOne

\* one trial with the phases pi/2, pi, -pi/2 of the scenario
C6_Witness ==
    /\ pc = "computed"
    /\ phase_matrix = <<<<F(2), F(4), F(-2)>>>>
    /\ itpc.vec = <<ItpcOne, ItpcOne, ItpcOne>>

\* phases + c at frequency column j
AddConstant(m, j, c) ==
    [i \in 1..Len(m) |->
        [k \in 1..Len(m[i]) |->
            IF k = j /\ ~m[i][k].nan THEN F(m[i][k].v + c) ELSE m[i][k]]]

\* C7: compute_itpc is invariant under a constant phase rotation: adding the same c to
\* every trial's phase at a frequency column leaves the ITPC of that column unchanged.
C7_RotationInvariant ==
    (pc = "computed" /\ phase_matrix # <<>>) =>
        \A j \in 1..Len(phase_matrix[1]), c \in -8..8 :
            compute_itpc(AddConstant(phase_matrix, j, c)).vec[j] = itpc.vec[j]

\* two trials an eighth of a turn apart: an ITPC strictly between 0 and 1
C7_Witness ==
    /\ pc = "computed"
    /\ phase_matrix = <<<<F(0)>>, <<F(1)>>>>
    /\ itpc.vec[1] = ItpcVal(2, 1, 4)
    /\ compute_itpc(AddConstant(phase_matrix, 1, 3)).vec[1] = ItpcVal(2, 1, 4)

\* the phases of column 1 are, up to whole turns, the n multiples of 2 pi / n
IsUniform(m, n) ==
    /\ Len(m) = n
    /\ \A i \in 1..n : ~m[i][1].nan
    /\ \A k \in 0..(n - 1) :
          Cardinality({i \in 1..n : m[i][1].v % 8 = k * (8 \div n)}) = 1

Occurrences(i) ==
    {o \in ConditionNames \X (1..analyzer.num_electrodes) \X (1..Len(data.rows)) :
        /\ o[3] <= Len(preprocessed_data[o[1]][o[2]].complex)
        /\ preprocessed_data[o[1]][o[2]].complex[o[3]][1].re = F(i)}

RangesOf(stimuli) ==
    {c \in ConditionNames : ConditionOf(c).start <= stimuli /\ stimuli <= ConditionOf(c).end}

\* C1 as stated: every row with stimuli inside some inclusive range is in the
\* buckets of exactly one condition, every row with stimuli outside all ranges is
\* in no bucket.
C1_Original ==
    pc = "preprocessed" =>
        \A i \in 1..Len(data.rows) :
            IF RangesOf(data.rows[i].stimuli) # {}
            THEN Cardinality({o[1] : o \in Occurrences(i)}) = 1
            ELSE Occurrences(i) = {}

\* C1: preprocess_data partitions the trials: a row whose stimuli lies in a condition's
\* inclusive range and whose electrode_number is one of 1..num_electrodes is found
\* exactly once, in the bucket of that condition and that electrode; every other row
\* (stimuli outside all ranges, or electrode_number outside 1..num_electrodes) is in
\* no bucket.
C1_Partition ==
    pc = "preprocessed" =>
        \A i \in 1..Len(data.rows) :
            LET row == data.rows[i] IN
            IF RangesOf(row.stimuli) # {} /\ row.electrode_number \in 1..analyzer.num_electrodes
            THEN /\ Cardinality(Occurrences(i)) = 1
                 /\ \A o \in Occurrences(i) :
                       RangesOf(row.stimuli) = {o[1]} /\ o[2] = row.electrode_number
            ELSE Occurrences(i) = {}

\* a row at the upper end of GN, bucketed once, and a row just past US, dropped
C1_Witness ==
    /\ pc = "preprocessed"
    /\ Len(data.rows) = 2
    /\ data.rows[1].stimuli = 30 /\ data.rows[1].electrode_number = MaxElectrodes
    /\ data.rows[2].stimuli = 121 /\ data.rows[2].electrode_number = MaxElectrodes
    /\ Occurrences(1) = {<<"GN", MaxElectrodes, 1>>}
    /\ Occurrences(2) = {}

\* the ITPC computed for the buckets: set once analyze_itpc has run
Analyzed == pc \in {"analyzed", "exported", "returned"} \/ (pc = "failed" /\ itpc_results # Unset)

\* C3 as stated: a bucket with zero trials gets a vector of NaN with one entry per
\* frequency column, kept in the results handed on.
C3_Original ==
    Analyzed =>
        \A c \in ConditionNames, e \in 1..analyzer.num_electrodes :
            preprocessed_data[c][e].phases = <<>> =>
                /\ itpc_results[c][e].itpc.ndarray
                /\ Len(itpc_results[c][e].itpc.vec) = NumColumns
                /\ \A j \in 1..NumColumns : itpc_results[c][e].itpc.vec[j].nan

Buckets == ConditionNames \X (1..analyzer.num_electrodes)

\* C4: main ends in one of two ways: it returns (results, summary) with an entry for
\* every condition and electrode and a summary for every condition, or, after an error
\* in loading, grouping, export or summary, (None, None) with a warning; nothing is
\* returned before that, no step ends anywhere else, and a failed run returns none of
\* what it had computed.
C4_TwoOutcomes ==
    /\ (ret # Unset) <=> (pc \in {"returned", "failed"})
    /\ pc \in {"main", "loaded", "preprocessed", "analyzed", "exported", "returned", "failed"}
    /\ pc = "returned" =>
          /\ ~ret.none /\ ~warned
          /\ disk.exists /\ disk.writable
          /\ DOMAIN ret.results = ConditionNames
          /\ \A c \in ConditionNames :
                /\ DOMAIN ret.results[c] = 1..analyzer.num_electrodes
                /\ \A e \in 1..analyzer.num_electrodes :
                      DOMAIN ret.results[c][e] = {"itpc", "complex_data"}
          /\ DOMAIN ret.summary = ConditionNames
          /\ Len(out_file) = Cardinality(Buckets)
    /\ pc = "failed" =>
          /\ ret.none /\ warned
          /\ DOMAIN ret = {"none", "error"}
          /\ ret.error.type \in {"FileNotFoundError", "KeyError", "OSError", "MemoryError"}

\* the export fails after the analysis has run: the results are not returned
C4_Witness ==
    /\ pc = "failed"
    /\ ret.none /\ ret.error.type = "OSError" /\ warned
    /\ itpc_results # Unset

\* the run meets no fault of the file system or of the table's columns, and no
\* exception in the summary
NoFault ==
    /\ disk.exists /\ disk.writable /\ disk.table.columns = AllColumns
    /\ ~(pc = "failed" /\ ret.error = SummaryFault)

\* the cell is one float() and complex() refuse
Unparseable(cell) == parse_complex_value(cell).raised

\* C5: a cell that cannot be parsed never aborts the run: when the file can be read and
\* written and the table has its columns, preprocess_data and compute_itpc complete for
\* every bucket, each failed cell stands as (0+0j, phase 0) in its bucket and is
\* printed, and main returns results.
C5_CellFailuresAbsorbed ==
    NoFault =>
        /\ pc # "failed"
        /\ pc \in {"preprocessed", "analyzed", "exported", "returned"} =>
              \A b \in Buckets :
                  LET idx == electrode_data(data, ConditionOf(b[1]), b[2])
                      bucket == preprocessed_data[b[1]][b[2]]
                  IN /\ Len(bucket.complex) = Len(idx) /\ Len(bucket.phases) = Len(idx)
                     /\ \A n \in 1..Len(idx), j \in 1..NumColumns :
                           Unparseable(data.rows[idx[n]].cells[j]) =>
                               /\ bucket.complex[n][j] = Zero
                               /\ bucket.phases[n][j] = F(0)
                               /\ \E l \in 1..Len(log) :
                                     log[l] \in Printable(data.rows[idx[n]].cells[j])
        /\ pc \in {"analyzed", "exported", "returned"} =>
              \A b \in Buckets :
                  preprocessed_data[b[1]][b[2]].phases # <<>> =>
                      /\ itpc_results[b[1]][b[2]].itpc.ndarray
                      /\ Len(itpc_results[b[1]][b[2]].itpc.vec) = NumColumns
        /\ pc = "returned" => ~ret.none /\ ret.results = itpc_results

\* the bucket of a row whose cells are all "abc": zeros, phase 0, ITPC 1, returned
C5_Witness ==
    /\ pc = "returned" /\ ~ret.none
    /\ Len(data.rows) = 1 /\ data.rows[1].cells[1] = Text_abc
    /\ ret.results["GS"][DefaultNumElectrodes].complex_data = <<[j \in 1..NumColumns |-> Zero]>>
    /\ ret.results["GS"][DefaultNumElectrodes].itpc.vec = [j \in 1..NumColumns |-> ItpcOne]
    /\ log = [j \in 1..NumColumns |-> Text_abc]

InUnitInterval(x) == ItpcGeqZero(x) /\ ItpcLeqOne(x)

\* C9 as stated: every ITPC value produced for a bucket lies in [0, 1].
C9_Original ==
    Analyzed =>
        \A b \in Buckets :
            LET v == itpc_results[b[1]][b[2]].itpc IN
            IF v.ndarray THEN \A j \in 1..Len(v.vec) : InUnitInterval(v.vec[j])
            ELSE InUnitInterval(v.scalar)

\* C9: the ITPC produced for a bucket is the single value NaN when the bucket has no
\* trial; otherwise it is a vector with one value per column read, and a value is NaN
\* when some trial's phase in its column is NaN and lies in [0, 1] when none is.
C9_UnitIntervalOrNaN ==
    Analyzed =>
        \A b \in Buckets :
            LET v == itpc_results[b[1]][b[2]].itpc
                ph == preprocessed_data[b[1]][b[2]].phases
            IN IF ph = <<>> THEN ~v.ndarray /\ v.scalar.nan
               ELSE /\ v.ndarray /\ Len(v.vec) = NumColumns
                    /\ \A j \in 1..NumColumns :
                          IF \E n \in 1..Len(ph) : ph[n][j].nan
                          THEN v.vec[j].nan
                          ELSE InUnitInterval(v.vec[j])

\* two trials a quarter turn apart: the ITPC is sqrt(1/2), strictly inside (0, 1)
C9_Witness ==
    /\ pc = "returned" /\ ~ret.none
    /\ preprocessed_data["GN"][1].phases = <<<<F(0), F(0)>>, <<F(2), F(0)>>>>
    /\ ret.results["GN"][1].itpc.ndarray
    /\ ret.results["GN"][1].itpc.vec[1] = ItpcVal(1, 0, 2)

\* C11 as stated: a two-element list [re, im], each element a number or text, the
\* second possibly ending in i, gives the complex value (re, im) and the phase
\* atan2(im, re), not the fallback.
C11_Original ==
    pc = "parsed" =>
        \A z \in GridParts :
            val \in EncList(z) =>
                /\ ~parsed.raised
                /\ parsed.complex = Cx(F(z[1]), F(z[2]))
                /\ parsed.phase = F(Atan2(z[2], z[1]))

\* [1, 1], both numbers: the fallback (0j, 0) instead of (1+1j, pi/4)
C11_Witness ==
    /\ pc = "parsed"
    /\ val = ListCell(<<NumCell(1), NumCell(1)>>)
    /\ parsed.raised /\ parsed.exc = "AttributeError"
    /\ parsed.complex = Zero /\ parsed.phase = F(0)
    /\ log = <<val>>

\* the float a sign and a run of digits stand for
SignedFloat(sign, m) ==
    IF sign = <<"-">> THEN (IF m = 0 THEN NegZero ELSE F(-m)) ELSE F(m)

\* C12: a string that, once its quotes and brackets are stripped, holds neither i nor j
\* and reads as the real number x gives (complex(x, 0), 0): the phase is 0 for every
\* x, negative x included.
C12_BareRealPhaseZero ==
    pc = "parsed" =>
        \A w \in WrapPairs, sign \in SignTexts, m \in 0..MaxMag :
            val = StrCell(w[1] \o sign \o Digits(m) \o w[2]) =>
                /\ ~parsed.raised /\ log = <<>>
                /\ parsed.complex = Cx(SignedFloat(sign, m), F(0))
                /\ parsed.phase = F(0)

\* "['-2']": the real number -2, whose argument is pi, with phase 0
C12_Witness ==
    /\ pc = "parsed"
    /\ val = StrCell(<<"[", "'", "-", "2", "'", "]">>)
    /\ parsed.complex = Cx(F(-2), F(0))
    /\ parsed.phase = F(0)

\* the rows of the exported table for condition c and electrode e
RowsFor(c, e) ==
    {b \in 1..Len(out_file) : out_file[b].Condition = c /\ out_file[b].Electrode = e}

\* C13: for every table and every num_electrodes = N, the grouped mapping and the
\* exported table hold exactly one entry for each pair (condition, electrode) with
\* electrode in 1..N, |conditions| * N in all; a pair without rows is kept as an empty
\* bucket.
C13_OneEntryPerPair ==
    /\ pc \in {"preprocessed", "analyzed", "exported"} =>
          /\ DOMAIN preprocessed_data = ConditionNames
          /\ \A c \in ConditionNames :
                /\ DOMAIN preprocessed_data[c] = 1..analyzer.num_electrodes
                /\ \A e \in 1..analyzer.num_electrodes :
                      /\ DOMAIN preprocessed_data[c][e] = {"complex", "phases"}
                      /\ Len(preprocessed_data[c][e].complex) =
                             Cardinality({i \in 1..Len(data.rows) :
                                             /\ c \in RangesOf(data.rows[i].stimuli)
                                             /\ data.rows[i].electrode_number = e})
    /\ pc \in {"analyzed", "exported"} =>
          /\ DOMAIN itpc_results = ConditionNames
          /\ \A c \in ConditionNames : DOMAIN itpc_results[c] = 1..analyzer.num_electrodes
    /\ pc = "exported" =>
          /\ Len(out_file) = Cardinality(ConditionNames) * analyzer.num_electrodes
          /\ \A c \in ConditionNames, e \in 1..analyzer.num_electrodes :
                Cardinality(RowsFor(c, e)) = 1
          /\ \A b \in 1..Len(out_file) :
                /\ out_file[b].Condition \in ConditionNames
                /\ out_file[b].Electrode \in 1..analyzer.num_electrodes

\* one row in (GS, N): the other pairs are exported all the same, as empty buckets
C13_Witness ==
    /\ pc = "exported"
    /\ analyzer.num_electrodes = MaxElectrodes
    /\ Len(data.rows) = 1 /\ data.rows[1].stimuli = 31
    /\ data.rows[1].electrode_number = MaxElectrodes
    /\ Len(out_file) = 4 * MaxElectrodes
    /\ preprocessed_data["GN"][1].phases = <<>>
    /\ \E b \in RowsFor("GN", 1) : out_file[b].ITPC.field = "empty"
    /\ \E b \in RowsFor("GS", MaxElectrodes) : out_file[b].ITPC.field = "list"

\* C14 as stated: with num_frequencies = F the phase matrix of a bucket with trials has
\* F columns, read from complex_val_1..complex_val_F, and its ITPC vector has length F.
C14_Original ==
    pc \in {"analyzed", "exported", "returned"} =>
        \A b \in Buckets :
            LET ph == preprocessed_data[b[1]][b[2]].phases IN
            ph # <<>> =>
                /\ \A n \in 1..Len(ph) : Len(ph[n]) = analyzer.num_frequencies
                /\ itpc_results[b[1]][b[2]].itpc.ndarray
                /\ Len(itpc_results[b[1]][b[2]].itpc.vec) = analyzer.num_frequencies

\* the default analyzer of main: num_frequencies is one more than the columns read
C14_Witness ==
    /\ pc = "returned"
    /\ analyzer.num_frequencies = DefaultNumFrequencies
    /\ Len(preprocessed_data["GN"][1].phases) = 1
    /\ Len(preprocessed_data["GN"][1].phases[1]) = NumColumns
    /\ Len(ret.results["GN"][1].itpc.vec) = NumColumns
    /\ NumColumns # analyzer.num_frequencies

\* the table on disk lacks a column the run is meant to read
MissingColumn == disk.exists /\ disk.table.columns # AllColumns

\* some row of the table on disk belongs to a bucket
SomeRowBucketed ==
    \E i \in 1..Len(disk.table.rows) :
        /\ RangesOf(disk.table.rows[i].stimuli) # {}
        /\ disk.table.rows[i].electrode_number \in 1..analyzer.num_electrodes

\* C15 as stated: a table without stimuli, electrode_number or one of the complex_val_k
\* makes the run fail with the missing column, whatever its rows: results are never
\* returned.
C15_Original ==
    MissingColumn =>
        /\ pc # "returned"
        /\ pc = "failed" => ret.error.type = "KeyError"

\* a table without complex_val_k none of whose rows is in a bucket: results returned
C15_Witness ==
    /\ pc = "returned" /\ ~ret.none /\ ~warned
    /\ disk.table.columns.stimuli /\ disk.table.columns.electrode_number
    /\ disk.table.columns.complex # 1..NumColumns
    /\ ~SomeRowBucketed
    /\ out_file # Unset

\* What holds instead: a missing stimuli or electrode_number column always ends the
\* run in the failure, a missing complex_val_k only when some row is in a bucket.
SchemaFailureWhenRead ==
    (MissingColumn /\ pc \in {"returned", "failed"}) =>
        LET cols == disk.table.columns IN
        IF ~cols.stimuli \/ ~cols.electrode_number \/ SomeRowBucketed
        THEN pc = "failed" /\ ret.none /\ warned /\ ret.error.type = "KeyError"
        ELSE pc = "returned" /\ ~ret.none

\* the result export_itpc_results wrote in row b of the file, as a sequence of floats
Exported(b) ==
    LET v == itpc_results[out_file[b].Condition][out_file[b].Electrode].itpc IN
    IF v.ndarray THEN v.vec ELSE <<v.scalar>>

\* C16 as stated: for every ITPC result export_itpc_results can write, the ITPC field
\* read back with parse_itpc_list is the sequence of floats that was written, same
\* length and order.
C16_Original ==
    parsed_itpc # Unset =>
        \A b \in 1..Len(out_file) : parsed_itpc[b] = Exported(b)

\* a bucket whose first column holds a nan phase: written as [nan, 1.0], read as []
C16_Witness ==
    /\ parsed_itpc # Unset
    /\ \E b \in 1..Len(out_file) :
          /\ out_file[b].ITPC.field = "list"
          /\ Exported(b) = <<ItpcNaN, ItpcOne>>
          /\ parsed_itpc[b] = <<>>

\* What holds instead: a vector without nan is read back as written; a vector with a
\* nan, and the nan of a bucket without trials, are read back as the empty list.
RoundTripWithoutNaN ==
    parsed_itpc # Unset =>
        \A b \in 1..Len(out_file) :
            LET v == itpc_results[out_file[b].Condition][out_file[b].Electrode].itpc IN
            IF v.ndarray /\ \A j \in 1..Len(v.vec) : ~v.vec[j].nan
            THEN parsed_itpc[b] = v.vec
            ELSE parsed_itpc[b] = <<>>

Grouped == pc \in {"preprocessed", "analyzed", "exported", "returned"}

\* the table cut down to the rows of bucket (c, e), in their order
OnlyBucket(t, c, e) ==
    LET Belongs(r) == c \in RangesOf(r.stimuli) /\ r.electrode_number = e
    IN [columns |-> t.columns, rows |-> SelectSeq(t.rows, Belongs)]

\* C17: the matrices and the ITPC of a bucket depend on the rows of that bucket only:
\* they are what the table cut down to those rows gives, whatever the rows of the
\* other buckets are, so two tables that agree on the bucket's rows agree on its result.
C17_BucketIndependent ==
    Grouped =>
        \A b \in Buckets :
            LET alone == bucket_of(OnlyBucket(data, b[1], b[2]), ConditionOf(b[1]), b[2])
            IN /\ preprocessed_data[b[1]][b[2]] = alone
               /\ pc # "preprocessed" =>
                     /\ itpc_results[b[1]][b[2]].itpc = compute_itpc(alone.phases)
                     /\ itpc_results[b[1]][b[2]].complex_data = alone.complex

\* two buckets hold a trial each; (US, 1) has the result of its own row, -1-1i
C17_Witness ==
    /\ pc = "returned"
    /\ Len(data.rows) = 2
    /\ data.rows[1].stimuli = 31 /\ data.rows[1].electrode_number = DefaultNumElectrodes
    /\ data.rows[2].stimuli = 120
    /\ Len(preprocessed_data["GS"][DefaultNumElectrodes].phases) = 1
    /\ Len(preprocessed_data["US"][1].phases) = 1
    /\ preprocessed_data["US"][1].phases[1][1] = F(-3)
    /\ itpc_results["US"][1].itpc.vec = [j \in 1..NumColumns |-> ItpcOne]

\* the positions in the table of the rows of bucket (c, e), ascending
TableOrder(c, e) ==
    LET Belongs(i) == c \in RangesOf(data.rows[i].stimuli) /\ data.rows[i].electrode_number = e
    IN SelectSeq([i \in 1..Len(data.rows) |-> i], Belongs)

\* C18: in every bucket the rows of the phase matrix and of the complex matrix follow
\* the order their rows have in the table, and the entries of a row follow the
\* columns complex_val_1, complex_val_2, ...
C18_StableOrder ==
    Grouped =>
        \A b \in Buckets :
            LET idx == TableOrder(b[1], b[2])
                bucket == preprocessed_data[b[1]][b[2]]
            IN /\ Len(bucket.complex) = Len(idx) /\ Len(bucket.phases) = Len(idx)
               /\ \A n \in 1..Len(idx) :
                     /\ Len(bucket.complex[n]) = NumColumns
                     /\ Len(bucket.phases[n]) = NumColumns
                     /\ \A j \in 1..NumColumns :
                           LET cell == parse_complex_value(data.rows[idx[n]].cells[j]) IN
                           /\ bucket.complex[n][j] = cell.complex
                           /\ bucket.phases[n][j] = cell.phase

\* a row with stimuli 30 before a row with stimuli 1, both of (GN, 1): kept in that
\* order, "0+1i" before "abc" within the first
C18_Witness ==
    /\ Grouped
    /\ Len(data.rows) = 2
    /\ data.rows[1].stimuli = 30 /\ data.rows[2].stimuli = 1
    /\ data.rows[2].cells[1] = Text_m1
    /\ Len(preprocessed_data["GN"][1].phases) = 2
    /\ preprocessed_data["GN"][1].phases[1][1] = F(2)
    /\ preprocessed_data["GN"][1].phases[1][2] = F(0)
    /\ preprocessed_data["GN"][1].phases[2][1] = F(4)

\* the unit vector a trial adds to the resultant of its column: e^{i*0} = 1 for a
\* cell that cannot be parsed, e^{i*phase} otherwise
TrialVector(cell) ==
    IF Unparseable(cell) THEN ExpI(F(0)) ELSE ExpI(parse_complex_value(cell).phase)

\* C19: a cell that cannot be parsed counts in the resultant as a full unit vector at
\* phase 0, beside the other trials of its column; a bucket with at least one trial
\* whose cells of a column are all unparseable has ITPC exactly 1 in that column.
C19_FallbackLocksPhase ==
    Analyzed =>
        \A b \in Buckets :
            LET idx == TableOrder(b[1], b[2])
                v == itpc_results[b[1]][b[2]].itpc
            IN idx # <<>> =>
                  /\ v.ndarray
                  /\ \A j \in 1..NumColumns :
                        /\ v.vec[j] = MeanAbs([n \in 1..Len(idx) |->
                                                  TrialVector(data.rows[idx[n]].cells[j])])
                        /\ (\A n \in 1..Len(idx) : Unparseable(data.rows[idx[n]].cells[j]))
                               => v.vec[j] = ItpcOne

\* two trials of (GS, DefaultNumElectrodes), every cell "abc": ITPC 1 in every column
C19_Witness ==
    /\ Analyzed
    /\ Len(data.rows) = 2
    /\ \A n \in 1..2 : data.rows[n].stimuli = 31 /\ data.rows[n].cells[1] = Text_abc
    /\ Len(preprocessed_data["GS"][DefaultNumElectrodes].phases) = 2
    /\ itpc_results["GS"][DefaultNumElectrodes].itpc.vec = [j \in 1..NumColumns |-> ItpcOne]

\* the number of trials held by the buckets of the set S
RECURSIVE TrialCount(_)
TrialCount(S) ==
    IF S = {} THEN 0
    ELSE LET b == CHOOSE x \in S : TRUE
         IN Len(preprocessed_data[b[1]][b[2]].phases) + TrialCount(S \ {b})

\* the rows preprocess_data keeps: stimuli in a condition range, electrode in 1..N
KeptRows ==
    {i \in 1..Len(data.rows) :
        /\ RangesOf(data.rows[i].stimuli) # {}
        /\ data.rows[i].electrode_number \in 1..analyzer.num_electrodes}

\* C20: a row whose electrode_number is outside 1..num_electrodes is in no bucket,
\* also when its stimuli lies in a condition range; preprocess_data neither raises nor
\* prints for it, and the trials of all buckets together number the rows with stimuli
\* in a range and electrode in 1..num_electrodes.
C20_OutsideElectrodeDropped ==
    /\ pc # "raised"
    /\ pc \in {"preprocessed", "analyzed", "exported"} =>
          /\ log = <<>>
          /\ \A i \in 1..Len(data.rows) :
                data.rows[i].electrode_number \notin 1..analyzer.num_electrodes
                    => Occurrences(i) = {}
          /\ TrialCount(Buckets) = Cardinality(KeptRows)

\* two rows of condition GN, the first at electrode num_electrodes + 1: one trial in
\* all, that of the second row
C20_Witness ==
    /\ pc = "preprocessed"
    /\ analyzer.num_electrodes = MaxElectrodes
    /\ Len(data.rows) = 2
    /\ data.rows[1].stimuli = 1 /\ data.rows[1].electrode_number = MaxElectrodes + 1
    /\ data.rows[2].stimuli = 1 /\ data.rows[2].electrode_number = MaxElectrodes
    /\ Occurrences(1) = {}
    /\ TrialCount(Buckets) = 1
    /\ log = <<>>

\* the run ended in main's except clause on a failure of load_data or of the
\* table's columns
LoadOrSchemaFailure == pc = "failed" /\ ret.error.type \in {"FileNotFoundError", "KeyError"}

\* C21: the results file is written only once load, grouping and ITPC computation
\* have succeeded, and holds their results; a run that fails to load or on a missing
\* column has written no file; the file is written before the summary is computed,
\* so a run that fails in the summary returns (None, None) with the file written.
C21_FileAfterAnalysisBeforeSummary ==
    /\ out_file # Unset =>
          /\ data # Unset /\ preprocessed_data # Unset /\ itpc_results # Unset
          /\ out_file = export_rows(analyzer, itpc_results)
          /\ pc \in {"exported", "returned", "failed"}
    /\ LoadOrSchemaFailure => out_file = Unset /\ itpc_results = Unset
    /\ summary # Unset => out_file # Unset
    /\ pc = "exported" => out_file # Unset /\ summary = Unset /\ ret = Unset
    /\ (pc = "failed" /\ ret.error = SummaryFault) =>
          /\ ret.none /\ warned
          /\ out_file # Unset /\ summary = Unset

\* a table of one trial: the file holds the ITPC 1 of (GN, 1), the summary failed and
\* main returned (None, None)
C21_Witness ==
    /\ pc = "failed" /\ ret.none /\ ret.error = SummaryFault
    /\ Len(data.rows) = 1 /\ data.rows[1].cells[1] = Text_1
    /\ data.rows[1].stimuli = 1
    /\ out_file[1].ITPC = [field |-> "list", items |-> [j \in 1..NumColumns |-> ItpcOne]]
    /\ summary = Unset

====
